---- MODULE Spec2Model ----
(***************************************************************************)
(* A model of the offchain-demo pallet (pallets/offchain-demo/src/lib.rs): *)
(* the dispatchable calls of decl_module!, the offchain worker entry point *)
(* and the fetch / lock / cache protocol of fetch_if_needed, run by        *)
(* several overlapping worker instances of one node.                       *)
(*                                                                         *)
(* Option<T> values are sets of at most one element: None is {} and        *)
(* Some(x) is {x}.  Byte strings (Vec<u8>) are sequences of numbers        *)
(* 0..255, strings (&str) are sequences of code points.                    *)
(***************************************************************************)
EXTENDS Integers, Sequences, FiniteSets, TLC

\* ------------------------------------------------------------ bounds

\* Worker instances of one node whose activations may overlap.
NumWorkers ==
    2

\* Ghost counters stop counting (saturate) at this value.
CountCap ==
    2

\* Calls of submit_number_signed / submit_number_unsigned explored beyond
\* NUM_VEC_LEN.
ExtraNumberCalls ==
    6

\* The largest number proposed to validate_unsigned.
MaxNumber ==
    50

\* Number submissions executed where every dispatchable call is explored.
MaxDispatchedNumbers ==
    2

\* Calls of the map-set pallet made outside the loop of
\* cant_exceed_max_members.
MaxFreeCalls ==
    2

\* ------------------------------------------------------------ constants

\* pub const NUM_VEC_LEN: usize = 10;
NUM_VEC_LEN ==
    10

\* .longevity(3)
Longevity ==
    3

\* if response.code != 200
HttpOk ==
    200

\* let task_queue_thing = Self::task_queue_by_number(1);
FetchTaskNumber ==
    1

\* map-set: "Add 16 members, reaching the max" (for i in 0..16)
MAX_MEMBERS ==
    16

Workers ==
    1..NumWorkers

\* AccountId values; the keystore of the node holds a subset of them.
Accounts ==
    {"alice"}

\* ------------------------------------------------------------ byte strings

\* s.as_bytes(): the UTF-8 encoding of one code point below 2048.
Utf8EncodeChar(cp) ==
    IF cp < 128
    THEN <<cp>>
    ELSE <<192 + (cp \div 64), 128 + (cp % 64)>>

RECURSIVE Utf8Encode(_)
\* s.as_bytes().to_vec() of de_string_to_bytes.
Utf8Encode(s) ==
    IF s = <<>> THEN <<>>
    ELSE Utf8EncodeChar(Head(s)) \o Utf8Encode(Tail(s))

RECURSIVE IsUtf8(_)
\* str::from_utf8(bytes).is_ok(), for one- and two-byte sequences: a byte
\* below 128 stands alone, a lead byte 194..223 takes one continuation byte
\* 128..191, and every other byte of the modelled alphabet (255) is invalid.
IsUtf8(b) ==
    IF b = <<>> THEN TRUE
    ELSE IF Head(b) < 128 THEN IsUtf8(Tail(b))
    ELSE IF Head(b) >= 194 /\ Head(b) <= 223
         THEN /\ Len(b) >= 2
              /\ b[2] >= 128 /\ b[2] <= 191
              /\ IsUtf8(Tail(Tail(b)))
    ELSE FALSE

RECURSIVE Utf8Decode(_)
\* str::from_utf8(bytes).unwrap(): the code points of bytes that are UTF-8
\* (one- and two-byte sequences).
Utf8Decode(b) ==
    IF b = <<>> THEN <<>>
    ELSE IF Head(b) < 128 THEN <<Head(b)>> \o Utf8Decode(Tail(b))
    ELSE <<(Head(b) - 192) * 64 + (b[2] - 128)>> \o Utf8Decode(Tail(Tail(b)))

\* HTTP_REMOTE_REQUEST_BYTES, shortened to "h".
HTTP_REMOTE_REQUEST_BYTES ==
    <<104>>

\* Header values a caller of insert_new_task may pass: "a", and the single
\* byte 0xFF, which is not UTF-8.
HeaderValues ==
    {<<97>>, <<255>>}

\* Remote request targets a caller of insert_new_task may pass.
TargetValues ==
    {<<116>>}

TaskNumbers ==
    {1, 2}

\* #[derive(Default)] struct TaskQueue
DefaultTaskQueue ==
    [http_remote_reqst |-> <<>>, http_header_usr |-> <<>>]

\* ------------------------------------------------------------ origins

SignedOrigin(a) ==
    [kind |-> "Signed", who |-> a]

NoneOrigin ==
    [kind |-> "None", who |-> "-"]

RootOrigin ==
    [kind |-> "Root", who |-> "-"]

Origins ==
    {SignedOrigin(a) : a \in Accounts} \cup {NoneOrigin, RootOrigin}

\* ensure_signed(origin): Ok(who) as {who}, Err(BadOrigin) as {}.
ensure_signed(origin) ==
    IF origin.kind = "Signed" THEN {origin.who} ELSE {}

\* ensure_none(origin).is_ok()
ensure_none(origin) ==
    origin.kind = "None"

\* ------------------------------------------------------------ remote responses

\* A response body: whether its bytes are UTF-8, whether the text is a JSON
\* object, and the object's members (name, JSON type, value; a number n is
\* held as <<n>>, a string as its code points).
JsonMember(name, type, val) ==
    [name |-> name, type |-> type, val |-> val]

GithubBody(login) ==
    [utf8 |-> TRUE, object |-> TRUE,
     members |-> {JsonMember("login", "string", login),
                  JsonMember("blog", "string", <<>>),
                  JsonMember("public_repos", "number", <<3>>),
                  JsonMember("id", "number", <<7>>)}]

MissingReposBody ==
    [utf8 |-> TRUE, object |-> TRUE,
     members |-> {JsonMember("login", "string", <<97>>),
                  JsonMember("blog", "string", <<>>)}]

NotJsonBody ==
    [utf8 |-> TRUE, object |-> FALSE, members |-> {}]

NotUtf8Body ==
    [utf8 |-> FALSE, object |-> FALSE, members |-> {}]

\* Logins the remote may answer with: "a" and "é".
Logins ==
    {<<97>>, <<233>>}

Bodies ==
    {GithubBody(l) : l \in Logins} \cup {MissingReposBody, NotJsonBody, NotUtf8Body}

\* What pending.try_wait(timeout) can produce: Err(_) on the deadline,
\* Ok(Err(_)) on a transport error, Ok(Ok(response)).
WaitOutcomes ==
    {[wait |-> "DeadlineReached", code |-> 0, body |-> NotJsonBody],
     [wait |-> "IoError", code |-> 0, body |-> NotJsonBody],
     [wait |-> "Ok", code |-> 404, body |-> NotJsonBody]}
    \cup {[wait |-> "Ok", code |-> HttpOk, body |-> b] : b \in Bodies}

\* The members of a body named name with JSON type type.
Members(body, name, type) ==
    {m \in body.members : m.name = name /\ m.type = type}

\* The deserialisation keeping the code points of login and blog as they
\* are, in place of their UTF-8 bytes.
GithubInfoFromJsonCodePoints(body) ==
    IF /\ body.object
       /\ Members(body, "login", "string") # {}
       /\ Members(body, "blog", "string") # {}
       /\ Members(body, "public_repos", "number") # {}
    THEN {[login |-> (CHOOSE m \in Members(body, "login", "string") : TRUE).val,
           blog |-> (CHOOSE m \in Members(body, "blog", "string") : TRUE).val,
           public_repos |->
               (CHOOSE m \in Members(body, "public_repos", "number") : TRUE).val[1]]}
    ELSE {}

\* serde_json::from_str::<GithubInfo>(resp_str): Some(gh_info) as {gh_info}
\* when login and blog are strings and public_repos is a number (other
\* members are ignored), None as {} otherwise.  de_string_to_bytes stores
\* each string as its UTF-8 bytes.
GithubInfoFromJson(body) ==
    IF /\ body.object
       /\ Members(body, "login", "string") # {}
       /\ Members(body, "blog", "string") # {}
       /\ Members(body, "public_repos", "number") # {}
    THEN {[login |-> Utf8Encode((CHOOSE m \in Members(body, "login", "string") : TRUE).val),
           blog |-> Utf8Encode((CHOOSE m \in Members(body, "blog", "string") : TRUE).val),
           public_repos |->
               (CHOOSE m \in Members(body, "public_repos", "number") : TRUE).val[1]]}
    ELSE {}

\* The error fetch_from_remote returns for the outcome of the wait, "-" when
\* it returns Ok(body).
WaitError(outcome) ==
    IF outcome.wait = "DeadlineReached" THEN "HttpFetchingError7"
    ELSE IF outcome.wait = "IoError" THEN "HttpFetchingError8"
    ELSE IF outcome.code # HttpOk THEN "HttpFetchingError9"
    ELSE "-"

\* fetch_n_parse's .map_err(|e| ... HttpFetchingError0): every error of
\* fetch_from_remote is returned as HttpFetchingError0.
MapRemoteError(e) ==
    "HttpFetchingError0"

\* The error fetch_n_parse returns for a body fetch_from_remote returned,
\* "-" when it returns Ok(gh_info).
ParseError(body) ==
    IF ~body.utf8 THEN "HttpFetchingError1"
    ELSE IF GithubInfoFromJson(body) = {} THEN "HttpFetchingError2"
    ELSE "-"

\* ------------------------------------------------------------ the lock

\* The closure acquiring the lock whatever value it read.
LockClosureOkAlways(s) ==
    TRUE

\* The closure of s_lock.mutate: Ok(true) for None (absent) and
\* Some(Some(false)) (free), Err(AlreadyFetched) for Some(None) (undecodable)
\* and Some(Some(true)) (held).
LockClosureOk(s) ==
    s \in {"absent", "free"}

\* The cached value is never recognised.
CacheHitNever(info) ==
    FALSE

\* `if let Some(Some(gh_info)) = s_info.get::<GithubInfo>()`
CacheHit(info) ==
    info # {}

\* ------------------------------------------------------------ state

VARIABLES
    \* Ledger State (decl_storage!) and the events deposited
    Numbers, TaskQueueByNumber, QueueAvailable, UserAgentOnChain, events,
    \* the result of the dispatchable call executed last
    dispatched,
    \* the validity validate_unsigned gave the call proposed last
    validity,
    \* node-local offchain storage: "offchain-demo::gh-info" and
    \* "offchain-demo::lock"
    s_info, s_lock,
    \* each worker instance: its position, the branch offchain_worker took,
    \* the lock value mutate read, `res`, the parsed gh_info, `err`, the
    \* error of fetch_from_remote logged by fetch_n_parse, the value the
    \* activation's call returned, the requests it sent
    pc, branch, lockSeen, res, gh_info, err, logged, ret, reqs,
    \* the outcome of pending.try_wait the instance's activation got
    resp,
    \* the request of the instance that is pending (try_wait consumes it)
    sent,
    \* the accounts of the local keystore and the transactions the workers
    \* submitted that the ledger has not executed yet
    keystore, pool,
    \* history: whether an instance stopped between two steps, and how often
    \* gh-info was written
    crashed, infoWrites,
    \* history: the activations that took the fetch branch since
    \* insert_new_task last succeeded
    fetchesSinceInsert,
    \* the map-set pallet: its Members storage map (the set of its keys), the
    \* events it deposited, the call executed last, and the calls made
    \* outside the loop of cant_exceed_max_members
    MapSetMembers, mapSetEvents, mapSetCall, mapSetCalls

ledgerVars ==
    <<Numbers, TaskQueueByNumber, QueueAvailable, UserAgentOnChain, events>>

localVars ==
    <<s_info, s_lock>>

workerVars ==
    <<pc, branch, lockSeen, res, gh_info, err, logged, ret, reqs, resp, sent>>

envVars ==
    <<keystore, pool, crashed, infoWrites, fetchesSinceInsert>>

mapSetVars ==
    <<MapSetMembers, mapSetEvents, mapSetCall, mapSetCalls>>

vars ==
    <<ledgerVars, dispatched, validity, mapSetVars, localVars, workerVars, envVars>>

\* A ghost counter's next value.
Bump(n) ==
    IF n < CountCap THEN n + 1 ELSE n

\* A Call<T> value: the dispatchable's name and its arguments (those the
\* call does not take are left at their defaults).
MakeCall(name, task_number, http_remote_reqst, http_header_usr, agent, number) ==
    [name |-> name, task_number |-> task_number,
     http_remote_reqst |-> http_remote_reqst, http_header_usr |-> http_header_usr,
     agent |-> agent, number |-> number]

NoCall ==
    MakeCall("-", 0, <<>>, <<>>, <<>>, 0)

\* The record of an executed call: its name, the kind of its origin, the
\* DispatchResult it returned and the Call value itself.
Dispatched(call, origin, result) ==
    [call |-> call.name, origin |-> origin.kind, result |-> result, args |-> call]

NoDispatch ==
    [call |-> "-", origin |-> "-", result |-> "-", args |-> NoCall]

\* InvalidTransaction::Call.into()
InvalidCall ==
    [valid |-> FALSE, error |-> "InvalidTransaction::Call", priority |-> "-",
     provides |-> <<>>, longevity |-> 0, propagate |-> FALSE]

NoValidity ==
    [call |-> NoCall, v |-> InvalidCall]

\* No request sent yet.
NoRequest ==
    [method |-> "-", url |-> <<>>, user_agent |-> <<>>]

\* No outcome of try_wait yet.
NoResponse ==
    [wait |-> "-", code |-> 0, body |-> NotJsonBody]

NoMapSetCall ==
    [call |-> "-", who |-> {}, result |-> "-"]

Init ==
    /\ Numbers = <<>>
    /\ TaskQueueByNumber = [n \in TaskNumbers |-> DefaultTaskQueue]
    /\ QueueAvailable = FALSE
    /\ UserAgentOnChain = <<>>
    /\ events = <<>>
    /\ dispatched = NoDispatch
    /\ validity = NoValidity
    /\ s_info = {}
    /\ s_lock = "absent"
    /\ pc = [w \in Workers |-> "idle"]
    /\ branch = [w \in Workers |-> "-"]
    /\ lockSeen = [w \in Workers |-> "-"]
    /\ res = [w \in Workers |-> "-"]
    /\ gh_info = [w \in Workers |-> {}]
    /\ err = [w \in Workers |-> "-"]
    /\ logged = [w \in Workers |-> "-"]
    /\ ret = [w \in Workers |-> "-"]
    /\ reqs = [w \in Workers |-> 0]
    /\ resp = [w \in Workers |-> NoResponse]
    /\ sent = [w \in Workers |-> NoRequest]
    /\ keystore \in SUBSET Accounts
    /\ pool = {}
    /\ crashed = FALSE
    /\ infoWrites = 0
    /\ fetchesSinceInsert = 0
    /\ MapSetMembers = {}
    /\ mapSetEvents = <<>>
    /\ mapSetCall = NoMapSetCall
    /\ mapSetCalls = 0

\* ------------------------------------------------------------ dispatchable calls

\* Each dispatchable call is an action on the Ledger State; `result` is the
\* DispatchResult it returns ("Ok", or "BadOrigin" from ensure_signed /
\* ensure_none).
DispatchResults ==
    {"Ok", "BadOrigin"}

\* insert_new_task refusing to replace an entry that is already there.
insert_new_task_keeps_entry(origin, task_number, http_remote_reqst, http_header_usr, result) ==
    IF ensure_signed(origin) = {}
    THEN /\ result = "BadOrigin"
         /\ UNCHANGED ledgerVars
    ELSE /\ TaskQueueByNumber' =
                IF TaskQueueByNumber[task_number] # DefaultTaskQueue
                THEN TaskQueueByNumber
                ELSE [TaskQueueByNumber EXCEPT ![task_number] =
                        [http_remote_reqst |-> http_remote_reqst,
                         http_header_usr |-> http_header_usr]]
         /\ QueueAvailable' = TRUE
         /\ result = "Ok"
         /\ UNCHANGED <<Numbers, UserAgentOnChain, events>>

\* pub fn insert_new_task(origin, task_number, http_remote_reqst, http_header_usr)
insert_new_task(origin, task_number, http_remote_reqst, http_header_usr, result) ==
    IF ensure_signed(origin) = {}
    THEN /\ result = "BadOrigin"
         /\ UNCHANGED ledgerVars
    ELSE /\ TaskQueueByNumber' =
                [TaskQueueByNumber EXCEPT ![task_number] =
                    [http_remote_reqst |-> http_remote_reqst,
                     http_header_usr |-> http_header_usr]]
         /\ QueueAvailable' = TRUE
         /\ result = "Ok"
         /\ UNCHANGED <<Numbers, UserAgentOnChain, events>>

\* pub fn empty_tasks(origin): the origin is not examined.
empty_tasks(origin, result) ==
    /\ QueueAvailable' = FALSE
    /\ result = "Ok"
    /\ UNCHANGED <<Numbers, TaskQueueByNumber, UserAgentOnChain, events>>

\* fn update_agent(who, agent)
update_agent(who, agent) ==
    /\ UserAgentOnChain' = agent
    /\ UNCHANGED <<Numbers, TaskQueueByNumber, QueueAvailable, events>>

\* pub fn submit_agent_signed(origin, agent)
submit_agent_signed(origin, agent, result) ==
    IF ensure_signed(origin) = {}
    THEN /\ result = "BadOrigin"
         /\ UNCHANGED ledgerVars
    ELSE /\ update_agent(ensure_signed(origin), agent)
         /\ result = "Ok"

\* The index append_or_replace_number overwrites in a full vector
\* (numbers[num_len % NUM_VEC_LEN], counted from 1 here).
ReplaceIndex(num_len) ==
    (num_len % NUM_VEC_LEN) + 1

\* append_or_replace_number pushing also onto a full vector.
append_or_replace_number_always_pushes(who, number) ==
    /\ Numbers' = Append(Numbers, number)
    /\ events' = Append(events, [who |-> who, number |-> number])
    /\ UNCHANGED <<TaskQueueByNumber, QueueAvailable, UserAgentOnChain>>

\* fn append_or_replace_number(who, number)
append_or_replace_number(who, number) ==
    /\ Numbers' =
          IF Len(Numbers) < NUM_VEC_LEN
          THEN Append(Numbers, number)
          ELSE [Numbers EXCEPT ![ReplaceIndex(Len(Numbers))] = number]
    /\ events' = Append(events, [who |-> who, number |-> number])
    /\ UNCHANGED <<TaskQueueByNumber, QueueAvailable, UserAgentOnChain>>

\* pub fn submit_number_signed(origin, number)
submit_number_signed(origin, number, result) ==
    IF ensure_signed(origin) = {}
    THEN /\ result = "BadOrigin"
         /\ UNCHANGED ledgerVars
    ELSE /\ append_or_replace_number(ensure_signed(origin), number)
         /\ result = "Ok"

\* submit_number_unsigned without its ensure_none(origin)?.
submit_number_unsigned_any_origin(origin, number, result) ==
    /\ append_or_replace_number({}, number)
    /\ result = "Ok"

\* pub fn submit_number_unsigned(origin, number)
submit_number_unsigned(origin, number, result) ==
    IF ~ensure_none(origin)
    THEN /\ result = "BadOrigin"
         /\ UNCHANGED ledgerVars
    ELSE /\ append_or_replace_number({}, number)
         /\ result = "Ok"

\* ------------------------------------------------------------ the offchain worker

\* The locals of an instance that starts an activation.
StartLocals(w, at, br) ==
    /\ pc' = [pc EXCEPT ![w] = at]
    /\ branch' = [branch EXCEPT ![w] = br]
    /\ lockSeen' = [lockSeen EXCEPT ![w] = "-"]
    /\ res' = [res EXCEPT ![w] = "-"]
    /\ gh_info' = [gh_info EXCEPT ![w] = {}]
    /\ err' = [err EXCEPT ![w] = "-"]
    /\ logged' = [logged EXCEPT ![w] = "-"]
    /\ reqs' = [reqs EXCEPT ![w] = 0]
    /\ resp' = [resp EXCEPT ![w] = NoResponse]
    /\ sent' = [sent EXCEPT ![w] = NoRequest]

\* The instance's call returns r: its locals are dropped.
Return(w, r) ==
    /\ pc' = [pc EXCEPT ![w] = "idle"]
    /\ ret' = [ret EXCEPT ![w] = r]
    /\ lockSeen' = [lockSeen EXCEPT ![w] = "-"]
    /\ gh_info' = [gh_info EXCEPT ![w] = {}]
    /\ err' = [err EXCEPT ![w] = "-"]
    /\ sent' = [sent EXCEPT ![w] = NoRequest]

\* What fetch_if_needed returns when the lock was not acquired (res is
\* Err(AlreadyFetched) or Ok(Err(true))): the `if let Ok(Ok(true)) = res`
\* is skipped and the function ends with Ok(()).
NotAcquiredResult(r) ==
    "Ok"

\* The fetch branch without QueueAvailable::put(false).
OffchainWorkerFetchKeepsFlag(w) ==
    /\ pc[w] = "idle"
    /\ QueueAvailable = TRUE
    /\ StartLocals(w, "s_info_get", "fetch")
    /\ ret' = [ret EXCEPT ![w] = "-"]
    /\ fetchesSinceInsert' = Bump(fetchesSinceInsert)
    /\ UNCHANGED <<ledgerVars, dispatched, validity, mapSetVars, localVars>>
    /\ UNCHANGED <<keystore, pool, crashed, infoWrites>>

\* offchain_worker, `if Self::queue_available() == true`: the flag is put to
\* false and fetch_if_needed is entered.
OffchainWorkerFetch(w) ==
    /\ pc[w] = "idle"
    /\ QueueAvailable = TRUE
    /\ QueueAvailable' = FALSE
    /\ StartLocals(w, "s_info_get", "fetch")
    /\ ret' = [ret EXCEPT ![w] = "-"]
    /\ fetchesSinceInsert' = Bump(fetchesSinceInsert)
    /\ UNCHANGED <<Numbers, TaskQueueByNumber, UserAgentOnChain, events>>
    /\ UNCHANGED <<dispatched, validity, mapSetVars, localVars>>
    /\ UNCHANGED <<keystore, pool, crashed, infoWrites>>

\* fetch_if_needed, the read of gh-info: a cached value returns Ok(()).
FetchIfNeededGetInfo(w) ==
    /\ pc[w] = "s_info_get"
    /\ IF CacheHit(s_info)
       THEN /\ Return(w, "Ok")
            /\ UNCHANGED <<branch, res, logged, resp, reqs>>
       ELSE /\ pc' = [pc EXCEPT ![w] = "mutate_get"]
            /\ UNCHANGED <<branch, lockSeen, res, gh_info, err, logged, resp, sent, ret, reqs>>
    /\ UNCHANGED <<ledgerVars, dispatched, validity, mapSetVars, localVars, envVars>>

\* s_lock.mutate, its read of the lock and its closure: Err(AlreadyFetched)
\* ends the mutate, Ok(true) goes on to the compare-and-set.
MutateGet(w) ==
    /\ pc[w] = "mutate_get"
    /\ IF LockClosureOk(s_lock)
       THEN /\ pc' = [pc EXCEPT ![w] = "mutate_cas"]
            /\ lockSeen' = [lockSeen EXCEPT ![w] = s_lock]
            /\ UNCHANGED <<branch, res, gh_info, err, logged, resp, sent, ret, reqs>>
       ELSE /\ res' = [res EXCEPT ![w] = "Err(AlreadyFetched)"]
            /\ Return(w, NotAcquiredResult("Err(AlreadyFetched)"))
            /\ UNCHANGED <<branch, logged, resp, reqs>>
    /\ UNCHANGED <<ledgerVars, dispatched, validity, mapSetVars, localVars, envVars>>

\* A plain read-then-write in place of the compare-and-set.
CompareAndSetAlwaysWrites(stored, seen) ==
    TRUE

\* Whether the compare-and-set of mutate writes: the stored value is still
\* the one mutate read.
CompareAndSetWrites(stored, seen) ==
    stored = seen

\* s_lock.mutate, its compare-and-set: Ok(Ok(true)) with the lock written
\* held, Ok(Err(true)) when the stored value changed since the read.
MutateCompareAndSet(w) ==
    /\ pc[w] = "mutate_cas"
    /\ IF CompareAndSetWrites(s_lock, lockSeen[w])
       THEN /\ s_lock' = "held"
            /\ res' = [res EXCEPT ![w] = "Ok(Ok(true))"]
            /\ pc' = [pc EXCEPT ![w] = "send"]
            /\ UNCHANGED <<branch, lockSeen, gh_info, err, logged, resp, sent, ret, reqs>>
       ELSE /\ res' = [res EXCEPT ![w] = "Ok(Err(true))"]
            /\ Return(w, NotAcquiredResult("Ok(Err(true))"))
            /\ UNCHANGED <<s_lock, branch, logged, resp, reqs>>
    /\ UNCHANGED <<ledgerVars, dispatched, validity, mapSetVars, s_info, envVars>>

\* fetch_n_parse got Err(e) from fetch_from_remote: e is logged and
\* HttpFetchingError0 goes to the Err arm of fetch_if_needed.
RemoteFailed(w, e) ==
    /\ logged' = [logged EXCEPT ![w] = e]
    /\ err' = [err EXCEPT ![w] = MapRemoteError(e)]
    /\ pc' = [pc EXCEPT ![w] = "release_err"]

\* The request built with the target of the task in place of
\* HTTP_REMOTE_REQUEST_BYTES.
BuildRequestToTaskTarget(tasks) ==
    [method |-> "GET",
     url |-> Utf8Decode(tasks[FetchTaskNumber].http_remote_reqst),
     user_agent |-> Utf8Decode(tasks[FetchTaskNumber].http_header_usr)]

\* The request fetch_from_remote builds: Request::get(remote_url) with
\* remote_url decoded from HTTP_REMOTE_REQUEST_BYTES, and the header
\* "User-Agent" decoded from the http_header_usr of
\* task_queue_by_number(1).
BuildRequest(tasks) ==
    [method |-> "GET",
     url |-> Utf8Decode(HTTP_REMOTE_REQUEST_BYTES),
     user_agent |-> Utf8Decode(tasks[FetchTaskNumber].http_header_usr)]

\* fetch_from_remote up to .send(): the header of task 1 is decoded
\* (HttpFetchingError3), and the request is sent, or not (HttpFetchingError6).
FetchFromRemoteSend(w) ==
    /\ pc[w] = "send"
    /\ LET user_agent_bytes == TaskQueueByNumber[FetchTaskNumber].http_header_usr
       IN  IF ~IsUtf8(user_agent_bytes)
           THEN /\ RemoteFailed(w, "HttpFetchingError3")
                /\ UNCHANGED <<reqs, sent>>
           ELSE IF ~IsUtf8(HTTP_REMOTE_REQUEST_BYTES)
           THEN /\ RemoteFailed(w, "HttpFetchingError4")
                /\ UNCHANGED <<reqs, sent>>
           ELSE \/ /\ RemoteFailed(w, "HttpFetchingError6")
                   /\ UNCHANGED <<reqs, sent>>
                \/ /\ pc' = [pc EXCEPT ![w] = "try_wait"]
                   /\ reqs' = [reqs EXCEPT ![w] = Bump(reqs[w])]
                   /\ sent' = [sent EXCEPT ![w] = BuildRequest(TaskQueueByNumber)]
                   /\ UNCHANGED <<err, logged>>
    /\ UNCHANGED <<branch, lockSeen, res, gh_info, ret, resp>>
    /\ UNCHANGED <<ledgerVars, dispatched, validity, mapSetVars, localVars, envVars>>

\* fetch_from_remote from pending.try_wait(timeout) on, and the decoding of
\* fetch_n_parse.
FetchFromRemoteWait(w) ==
    /\ pc[w] = "try_wait"
    /\ \E outcome \in WaitOutcomes :
          /\ resp' = [resp EXCEPT ![w] = outcome]
          /\ IF WaitError(outcome) # "-"
             THEN /\ RemoteFailed(w, WaitError(outcome))
                  /\ UNCHANGED gh_info
             ELSE IF ParseError(outcome.body) # "-"
             THEN /\ err' = [err EXCEPT ![w] = ParseError(outcome.body)]
                  /\ pc' = [pc EXCEPT ![w] = "release_err"]
                  /\ UNCHANGED <<gh_info, logged>>
             ELSE /\ gh_info' = [gh_info EXCEPT ![w] = GithubInfoFromJson(outcome.body)]
                  /\ pc' = [pc EXCEPT ![w] = "s_info_set"]
                  /\ UNCHANGED <<err, logged>>
    /\ sent' = [sent EXCEPT ![w] = NoRequest]
    /\ UNCHANGED <<branch, lockSeen, res, ret, reqs>>
    /\ UNCHANGED <<ledgerVars, dispatched, validity, mapSetVars, localVars, envVars>>

\* fetch_if_needed, Ok arm: s_info.set(&gh_info)
SetInfo(w) ==
    /\ pc[w] = "s_info_set"
    /\ s_info' = gh_info[w]
    /\ infoWrites' = Bump(infoWrites)
    /\ pc' = [pc EXCEPT ![w] = "release_ok"]
    /\ UNCHANGED <<branch, lockSeen, res, gh_info, err, logged, resp, sent, ret, reqs>>
    /\ UNCHANGED <<ledgerVars, dispatched, validity, mapSetVars, s_lock, keystore, pool, crashed, fetchesSinceInsert>>

\* fetch_if_needed, Ok arm: s_lock.set(&false), then Ok(())
ReleaseOk(w) ==
    /\ pc[w] = "release_ok"
    /\ s_lock' = "free"
    /\ Return(w, "Ok")
    /\ UNCHANGED <<branch, res, logged, resp, reqs>>
    /\ UNCHANGED <<ledgerVars, dispatched, validity, mapSetVars, s_info, envVars>>

\* The Err arm sending the request again in place of returning.
ReleaseErrRetries(w) ==
    /\ pc[w] = "release_err"
    /\ pc' = [pc EXCEPT ![w] = "send"]
    /\ UNCHANGED <<branch, lockSeen, res, gh_info, err, logged, resp, sent, ret, reqs>>
    /\ UNCHANGED <<ledgerVars, dispatched, validity, mapSetVars, localVars, envVars>>

\* The Err arm returning err without releasing the lock.
ReleaseErrKeepsLock(w) ==
    /\ pc[w] = "release_err"
    /\ Return(w, err[w])
    /\ UNCHANGED <<branch, res, logged, resp, reqs>>
    /\ UNCHANGED <<ledgerVars, dispatched, validity, mapSetVars, localVars, envVars>>

\* fetch_if_needed, Err arm: s_lock.set(&false), then Err(err)
ReleaseErr(w) ==
    /\ pc[w] = "release_err"
    /\ s_lock' = "free"
    /\ Return(w, err[w])
    /\ UNCHANGED <<branch, res, logged, resp, reqs>>
    /\ UNCHANGED <<ledgerVars, dispatched, validity, mapSetVars, s_info, envVars>>

\* signed_submit_agent looking at gh-info before it asks for a signer.
signed_submit_agent_cache_first(w) ==
    IF s_info = {}
    THEN /\ ret' = [ret EXCEPT ![w] = "Ok"]
         /\ UNCHANGED pool
    ELSE IF keystore = {}
    THEN /\ ret' = [ret EXCEPT ![w] = "SignedSubmitNumberError"]
         /\ UNCHANGED pool
    ELSE \E accepted \in SUBSET keystore :
            /\ pool' = pool \cup
                  {[who |-> a, agent |-> (CHOOSE i \in s_info : TRUE).login] :
                      a \in accepted}
            /\ ret' = [ret EXCEPT ![w] =
                  IF accepted = keystore THEN "Ok" ELSE "SignedSubmitNumberError"]

\* signed_submit_agent sending the User-Agent header of the fetch task in
\* place of the login of the cached value.
signed_submit_agent_sends_header(w) ==
    IF keystore = {}
    THEN /\ ret' = [ret EXCEPT ![w] = "SignedSubmitNumberError"]
         /\ UNCHANGED pool
    ELSE IF s_info = {}
    THEN /\ ret' = [ret EXCEPT ![w] = "Ok"]
         /\ UNCHANGED pool
    ELSE \E accepted \in SUBSET keystore :
            /\ pool' = pool \cup
                  {[who |-> a, agent |-> TaskQueueByNumber[FetchTaskNumber].http_header_usr] :
                      a \in accepted}
            /\ ret' = [ret EXCEPT ![w] =
                  IF accepted = keystore THEN "Ok" ELSE "SignedSubmitNumberError"]

\* signed_submit_agent: without a local account it fails; with gh-info
\* cached, send_signed_transaction submits submit_agent_signed(login) for
\* every local account, and a submission that failed makes the result
\* SignedSubmitNumberError.
signed_submit_agent(w) ==
    IF keystore = {}
    THEN /\ ret' = [ret EXCEPT ![w] = "SignedSubmitNumberError"]
         /\ UNCHANGED pool
    ELSE IF s_info = {}
    THEN /\ ret' = [ret EXCEPT ![w] = "Ok"]
         /\ UNCHANGED pool
    ELSE \E accepted \in SUBSET keystore :
            /\ pool' = pool \cup
                  {[who |-> a, agent |-> (CHOOSE i \in s_info : TRUE).login] :
                      a \in accepted}
            /\ ret' = [ret EXCEPT ![w] =
                  IF accepted = keystore THEN "Ok" ELSE "SignedSubmitNumberError"]

\* offchain_worker, the else branch: signed_submit_agent is called.
OffchainWorkerSubmit(w) ==
    /\ pc[w] = "idle"
    /\ QueueAvailable # TRUE
    /\ StartLocals(w, "idle", "submit")
    /\ signed_submit_agent(w)
    /\ UNCHANGED <<ledgerVars, dispatched, validity, mapSetVars, localVars>>
    /\ UNCHANGED <<keystore, crashed, infoWrites, fetchesSinceInsert>>

\* The instance stops between two steps (the node is shut down): what it
\* wrote stays, nothing more is written.
Crash(w) ==
    /\ pc[w] # "idle"
    /\ crashed' = TRUE
    /\ StartLocals(w, "idle", "-")
    /\ ret' = [ret EXCEPT ![w] = "-"]
    /\ UNCHANGED <<ledgerVars, dispatched, validity, mapSetVars, localVars>>
    /\ UNCHANGED <<keystore, pool, infoWrites, fetchesSinceInsert>>

\* ------------------------------------------------------------ the ledger

\* Agents a user may pass to submit_agent_signed: "x".
AgentValues ==
    {<<120>>}

\* A user's insert_new_task is executed.
InsertNewTask ==
    /\ \E origin \in Origins, n \in TaskNumbers, t \in TargetValues, h \in HeaderValues,
          result \in DispatchResults :
          /\ insert_new_task(origin, n, t, h, result)
          /\ fetchesSinceInsert' = IF result = "Ok" THEN 0 ELSE fetchesSinceInsert
    /\ UNCHANGED <<dispatched, validity, mapSetVars, localVars, workerVars>>
    /\ UNCHANGED <<keystore, pool, crashed, infoWrites>>

\* A user's empty_tasks is executed.
EmptyTasks ==
    /\ \E origin \in Origins, result \in DispatchResults : empty_tasks(origin, result)
    /\ UNCHANGED <<dispatched, validity, mapSetVars, localVars, workerVars, envVars>>

\* A user's submit_agent_signed is executed.
SubmitAgentSigned ==
    /\ \E origin \in Origins, agent \in AgentValues, result \in DispatchResults :
          submit_agent_signed(origin, agent, result)
    /\ UNCHANGED <<dispatched, validity, mapSetVars, localVars, workerVars, envVars>>

\* A transaction a worker submitted is executed, signed by its account.
ExecutePool ==
    /\ \E tx \in pool, result \in DispatchResults :
          /\ submit_agent_signed(SignedOrigin(tx.who), tx.agent, result)
          /\ pool' = pool \ {tx}
    /\ UNCHANGED <<dispatched, validity, mapSetVars, localVars, workerVars>>
    /\ UNCHANGED <<keystore, crashed, infoWrites, fetchesSinceInsert>>

\* The steps of fetch_if_needed an instance takes after the fetch branch of
\* offchain_worker.
FetchStep(w) ==
    \/ FetchIfNeededGetInfo(w)
    \/ MutateGet(w)
    \/ MutateCompareAndSet(w)
    \/ FetchFromRemoteSend(w)
    \/ FetchFromRemoteWait(w)
    \/ SetInfo(w)
    \/ ReleaseOk(w)
    \/ ReleaseErr(w)

\* The whole pallet on a node that keeps running: the ledger executes the
\* users' calls and the workers' transactions, and the worker instances run
\* their activations.
Next ==
    \/ InsertNewTask
    \/ EmptyTasks
    \/ SubmitAgentSigned
    \/ ExecutePool
    \/ \E w \in Workers : OffchainWorkerFetch(w)
    \/ \E w \in Workers : OffchainWorkerSubmit(w)
    \/ \E w \in Workers : FetchStep(w)

Spec ==
    Init /\ [][Next]_vars

\* The fetch protocol alone, on a node that may stop an instance at any
\* point: tasks are inserted, and every activation takes the fetch branch.
InitFetch ==
    Init /\ keystore = Accounts

NextFetch ==
    \/ InsertNewTask
    \/ \E w \in Workers : OffchainWorkerFetch(w)
    \/ \E w \in Workers : FetchStep(w)
    \/ \E w \in Workers : Crash(w)

SpecFetch ==
    InitFetch /\ [][NextFetch]_vars

\* One instance whose activations follow one another, on a node that keeps
\* running: every call of fetch_if_needed runs alone.
ScenarioWorkers ==
    {1}

NextScenario ==
    \/ InsertNewTask
    \/ \E w \in ScenarioWorkers : OffchainWorkerFetch(w)
    \/ \E w \in ScenarioWorkers : FetchStep(w)

InitScenario ==
    Init /\ keystore = Accounts

SpecScenario ==
    InitScenario /\ [][NextScenario]_vars

\* ------------------------------------------------------------ the map-set pallet

\* The accounts of the tests: Origin::signed(i) for i in 0..16, and
\* Origin::signed(16).
MapSetAccounts ==
    0..MAX_MEMBERS

MapSetOrigins ==
    {SignedOrigin(a) : a \in MapSetAccounts} \cup {NoneOrigin}

MemberAdded(who) ==
    [kind |-> "MemberAdded", who |-> who]

MemberRemoved(who) ==
    [kind |-> "MemberRemoved", who |-> who]

\* add_member admitting a new member into a full set.
add_member_no_limit(origin, result) ==
    IF ensure_signed(origin) = {}
    THEN /\ result = "BadOrigin"
         /\ UNCHANGED <<MapSetMembers, mapSetEvents>>
    ELSE IF origin.who \in MapSetMembers
    THEN /\ result = "AlreadyMember"
         /\ UNCHANGED <<MapSetMembers, mapSetEvents>>
    ELSE /\ MapSetMembers' = MapSetMembers \cup {origin.who}
         /\ mapSetEvents' = Append(mapSetEvents, MemberAdded(origin.who))
         /\ result = "Ok"

\* MapSet::add_member(origin): the signed caller becomes a member; a member
\* gets AlreadyMember, a new account gets MembershipLimitReached when
\* MAX_MEMBERS members are present; a failed call changes nothing.
add_member(origin, result) ==
    IF ensure_signed(origin) = {}
    THEN /\ result = "BadOrigin"
         /\ UNCHANGED <<MapSetMembers, mapSetEvents>>
    ELSE IF origin.who \in MapSetMembers
    THEN /\ result = "AlreadyMember"
         /\ UNCHANGED <<MapSetMembers, mapSetEvents>>
    ELSE IF Cardinality(MapSetMembers) >= MAX_MEMBERS
    THEN /\ result = "MembershipLimitReached"
         /\ UNCHANGED <<MapSetMembers, mapSetEvents>>
    ELSE /\ MapSetMembers' = MapSetMembers \cup {origin.who}
         /\ mapSetEvents' = Append(mapSetEvents, MemberAdded(origin.who))
         /\ result = "Ok"

\* remove_member removing, and announcing, an account that is no member.
remove_member_any_account(origin, result) ==
    IF ensure_signed(origin) = {}
    THEN /\ result = "BadOrigin"
         /\ UNCHANGED <<MapSetMembers, mapSetEvents>>
    ELSE /\ MapSetMembers' = MapSetMembers \ {origin.who}
         /\ mapSetEvents' = Append(mapSetEvents, MemberRemoved(origin.who))
         /\ result = "Ok"

\* MapSet::remove_member(origin): the signed caller stops being a member; an
\* account that is no member gets NotMember and nothing changes.
remove_member(origin, result) ==
    IF ensure_signed(origin) = {}
    THEN /\ result = "BadOrigin"
         /\ UNCHANGED <<MapSetMembers, mapSetEvents>>
    ELSE IF origin.who \notin MapSetMembers
    THEN /\ result = "NotMember"
         /\ UNCHANGED <<MapSetMembers, mapSetEvents>>
    ELSE /\ MapSetMembers' = MapSetMembers \ {origin.who}
         /\ mapSetEvents' = Append(mapSetEvents, MemberRemoved(origin.who))
         /\ result = "Ok"

MapSetResults ==
    {"Ok", "BadOrigin", "AlreadyMember", "MembershipLimitReached", "NotMember"}

\* The record of an executed map-set call.
MapSetCalled(call, origin, result) ==
    [call |-> call, who |-> ensure_signed(origin), result |-> result]

\* cant_exceed_max_members, one turn of its loop
\* `for i in 0..16 { add_member(Origin::signed(i)) }`: with the accounts
\* below i the members, account i calls add_member.
CantExceedLoop ==
    /\ Cardinality(MapSetMembers) < MAX_MEMBERS
    /\ MapSetMembers = 0..(Cardinality(MapSetMembers) - 1)
    /\ \E result \in MapSetResults :
          /\ add_member(SignedOrigin(Cardinality(MapSetMembers)), result)
          /\ mapSetCall' = MapSetCalled("add_member",
                                       SignedOrigin(Cardinality(MapSetMembers)), result)
    /\ UNCHANGED mapSetCalls
    /\ UNCHANGED <<ledgerVars, dispatched, validity, localVars, workerVars, envVars>>

\* Any account calls add_member.
MapSetAddMember ==
    /\ mapSetCalls < MaxFreeCalls
    /\ \E origin \in MapSetOrigins, result \in MapSetResults :
          /\ add_member(origin, result)
          /\ mapSetCall' = MapSetCalled("add_member", origin, result)
    /\ mapSetCalls' = mapSetCalls + 1
    /\ UNCHANGED <<ledgerVars, dispatched, validity, localVars, workerVars, envVars>>

\* Any account calls remove_member.
MapSetRemoveMember ==
    /\ mapSetCalls < MaxFreeCalls
    /\ \E origin \in MapSetOrigins, result \in MapSetResults :
          /\ remove_member(origin, result)
          /\ mapSetCall' = MapSetCalled("remove_member", origin, result)
    /\ mapSetCalls' = mapSetCalls + 1
    /\ UNCHANGED <<ledgerVars, dispatched, validity, localVars, workerVars, envVars>>

NextMapSet ==
    \/ CantExceedLoop
    \/ MapSetAddMember
    \/ MapSetRemoveMember

InitMapSet ==
    Init /\ keystore = Accounts

SpecMapSet ==
    InitMapSet /\ [][NextMapSet]_vars

\* Header values of the callers whose requests are examined: "a", "é" as
\* its two UTF-8 bytes, and the byte 0xFF.
RequestHeaderValues ==
    HeaderValues \cup {<<195, 169>>}

\* A user's insert_new_task with any of these headers is executed.
InsertNewTaskAnyHeader ==
    /\ \E origin \in Origins, n \in TaskNumbers, t \in TargetValues,
          h \in RequestHeaderValues, result \in DispatchResults :
          /\ insert_new_task(origin, n, t, h, result)
          /\ fetchesSinceInsert' = IF result = "Ok" THEN 0 ELSE fetchesSinceInsert
    /\ UNCHANGED <<dispatched, validity, mapSetVars, localVars, workerVars>>
    /\ UNCHANGED <<keystore, pool, crashed, infoWrites>>

\* The requests of overlapping instances on a node that keeps running.
NextRequest ==
    \/ InsertNewTaskAnyHeader
    \/ \E w \in Workers : OffchainWorkerFetch(w)
    \/ \E w \in Workers : FetchStep(w)

InitRequest ==
    Init /\ keystore = Accounts

SpecRequest ==
    InitRequest /\ [][NextRequest]_vars

\* ------------------------------------------------------------ delivery

\* The whole pallet on a node that holds a signing key and never stops an
\* instance, with the scheduling the node gives: an idle instance is
\* activated again (offchain_worker runs after every block), an activation
\* that started fetch_if_needed runs it to its end, a submission that can
\* be accepted by the pool is accepted on some activation, and a transaction
\* in the pool is executed.  Nothing is assumed about when users call
\* insert_new_task.
InitLive ==
    Init /\ keystore = Accounts

\* One activation of offchain_worker, whichever branch it takes.
Activate(w) ==
    OffchainWorkerFetch(w) \/ OffchainWorkerSubmit(w)

\* signed_submit_agent returning Ok(()): every account's transaction was
\* accepted.
SubmitAccepted(w) ==
    OffchainWorkerSubmit(w) /\ ret'[w] = "Ok"

\* The transactions signed_submit_agent can submit.
TxSpace ==
    [who : Accounts, agent : {Utf8Encode(l) : l \in Logins}]

\* The ledger executes the submitted transaction tx.
ExecuteTx(tx) ==
    ExecutePool /\ tx \in pool /\ tx \notin pool'

NextLive ==
    \/ InsertNewTask
    \/ EmptyTasks
    \/ SubmitAgentSigned
    \/ ExecutePool
    \/ \E w \in Workers : OffchainWorkerFetch(w)
    \/ \E w \in Workers : OffchainWorkerSubmit(w)
    \/ \E w \in Workers : FetchStep(w)

FairLive ==
    /\ \A w \in Workers : WF_vars(Activate(w))
    /\ \A w \in Workers : WF_vars(FetchStep(w))
    /\ \A w \in Workers : WF_vars(SubmitAccepted(w))
    /\ \A tx \in TxSpace : WF_vars(ExecuteTx(tx))

SpecLive ==
    InitLive /\ [][NextLive]_vars /\ FairLive

\* ------------------------------------------------------------ the number vector

\* The k-th submission carries the number k (0, 1, 2, ...), so that the
\* place of every submitted number in Numbers can be told.
NextNumber ==
    Len(events)

\* A submit_number_signed call is executed and its result recorded.
DispatchSubmitNumberSigned ==
    /\ Len(events) < NUM_VEC_LEN + ExtraNumberCalls
    /\ \E origin \in Origins, result \in DispatchResults :
          /\ submit_number_signed(origin, NextNumber, result)
          /\ dispatched' =
                Dispatched(MakeCall("submit_number_signed", 0, <<>>, <<>>, <<>>, NextNumber),
                           origin, result)
    /\ UNCHANGED <<validity, mapSetVars, localVars, workerVars, envVars>>

\* A submit_number_unsigned call is executed and its result recorded.
DispatchSubmitNumberUnsigned ==
    /\ Len(events) < NUM_VEC_LEN + ExtraNumberCalls
    /\ \E origin \in Origins, result \in DispatchResults :
          /\ submit_number_unsigned(origin, NextNumber, result)
          /\ dispatched' =
                Dispatched(MakeCall("submit_number_unsigned", 0, <<>>, <<>>, <<>>, NextNumber),
                           origin, result)
    /\ UNCHANGED <<validity, mapSetVars, localVars, workerVars, envVars>>

NextNumbers ==
    \/ DispatchSubmitNumberSigned
    \/ DispatchSubmitNumberUnsigned

\* The number vector is examined on a node whose keystore holds every account.
InitNumbers ==
    Init /\ keystore = Accounts

SpecNumbers ==
    InitNumbers /\ [][NextNumbers]_vars

\* ------------------------------------------------------------ every dispatchable call

\* An insert_new_task call is executed and its result recorded.
DispatchInsertNewTask ==
    /\ \E origin \in Origins, n \in TaskNumbers, t \in TargetValues, h \in HeaderValues,
          result \in DispatchResults :
          /\ insert_new_task(origin, n, t, h, result)
          /\ dispatched' =
                Dispatched(MakeCall("insert_new_task", n, t, h, <<>>, 0), origin, result)
          /\ fetchesSinceInsert' = IF result = "Ok" THEN 0 ELSE fetchesSinceInsert
    /\ UNCHANGED <<validity, mapSetVars, localVars, workerVars>>
    /\ UNCHANGED <<keystore, pool, crashed, infoWrites>>

\* An empty_tasks call is executed and its result recorded.
DispatchEmptyTasks ==
    /\ \E origin \in Origins, result \in DispatchResults :
          /\ empty_tasks(origin, result)
          /\ dispatched' =
                Dispatched(MakeCall("empty_tasks", 0, <<>>, <<>>, <<>>, 0), origin, result)
    /\ UNCHANGED <<validity, mapSetVars, localVars, workerVars, envVars>>

\* A submit_agent_signed call is executed and its result recorded.
DispatchSubmitAgentSigned ==
    /\ \E origin \in Origins, agent \in AgentValues, result \in DispatchResults :
          /\ submit_agent_signed(origin, agent, result)
          /\ dispatched' =
                Dispatched(MakeCall("submit_agent_signed", 0, <<>>, <<>>, agent, 0),
                           origin, result)
    /\ UNCHANGED <<validity, mapSetVars, localVars, workerVars, envVars>>

\* The ledger executing calls of every kind from origins of every kind.
NextDispatch ==
    \/ DispatchInsertNewTask
    \/ DispatchEmptyTasks
    \/ DispatchSubmitAgentSigned
    \/ (Len(events) < MaxDispatchedNumbers /\ DispatchSubmitNumberSigned)
    \/ (Len(events) < MaxDispatchedNumbers /\ DispatchSubmitNumberUnsigned)

InitDispatch ==
    Init /\ keystore = Accounts

SpecDispatch ==
    InitDispatch /\ [][NextDispatch]_vars

\* ------------------------------------------------------------ unsigned admission

\* The calls that may be proposed as unsigned transactions.
Calls ==
    {MakeCall("insert_new_task", n, t, h, <<>>, 0) :
        n \in TaskNumbers, t \in TargetValues, h \in HeaderValues}
    \cup {MakeCall("empty_tasks", 0, <<>>, <<>>, <<>>, 0)}
    \cup {MakeCall("submit_agent_signed", 0, <<>>, <<>>, a, 0) : a \in AgentValues}
    \cup {MakeCall("submit_number_signed", 0, <<>>, <<>>, <<>>, n) : n \in 0..MaxNumber}
    \cup {MakeCall("submit_number_unsigned", 0, <<>>, <<>>, <<>>, n) : n \in 0..MaxNumber}

\* validate_unsigned accepting the signed number call as well.
validate_unsigned_any_number(call) ==
    IF call.name \in {"submit_number_unsigned", "submit_number_signed"}
    THEN [valid |-> TRUE, error |-> "-", priority |-> "UnsignedPriority",
          provides |-> <<"offchain-demo", "submit_number_unsigned">>,
          longevity |-> Longevity, propagate |-> TRUE]
    ELSE InvalidCall

\* fn validate_unsigned(_source, call): the ValidTransaction built for
\* Call::submit_number_unsigned(number), InvalidTransaction::Call otherwise.
validate_unsigned(call) ==
    IF call.name = "submit_number_unsigned"
    THEN [valid |-> TRUE, error |-> "-", priority |-> "UnsignedPriority",
          provides |-> <<"offchain-demo", "submit_number_unsigned">>,
          longevity |-> Longevity, propagate |-> TRUE]
    ELSE InvalidCall

\* A call is proposed as an unsigned transaction and validated.
ProposeUnsigned ==
    /\ \E call \in Calls : validity' = [call |-> call, v |-> validate_unsigned(call)]
    /\ UNCHANGED <<ledgerVars, dispatched, mapSetVars, localVars, workerVars, envVars>>

NextAdmission ==
    ProposeUnsigned

SpecAdmission ==
    Init /\ [][NextAdmission]_vars

\* ------------------------------------------------------------ properties

\* The instance holds the lock: it is between the compare-and-set that wrote
\* held and its s_lock.set(&false).
InCritical(w) ==
    pc[w] \in {"send", "try_wait", "s_info_set", "release_ok", "release_err"}

\* The step is the instance stopping: it goes idle with nothing returned.
Stops(w) ==
    pc[w] # "idle" /\ pc'[w] = "idle" /\ ret'[w] = "-"

\* C1: at no time are two instances both between acquiring the lock and
\* releasing it (so no two requests are in flight together), and the lock
\* reads held for as long as one of them is, so every other call that comes
\* to the lock meanwhile fails to acquire it.
C1_MutualExclusion ==
    /\ \A w1, w2 \in Workers : InCritical(w1) /\ InCritical(w2) => w1 = w2
    /\ \A w \in Workers : InCritical(w) => s_lock = "held"

\* C1 witness: one instance waits for its response while a concurrent call
\* has lost the compare-and-set and returned.
C1_Witness ==
    \E w1, w2 \in Workers :
        /\ pc[w1] = "try_wait"
        /\ pc[w2] = "idle" /\ res[w2] = "Ok(Err(true))"

\* C2 (as claimed): without a crash, gh-info is written at most once.
C2_AtMostOneFetch ==
    crashed = FALSE => infoWrites <= 1

\* C3: a call that reads gh-info while it is populated returns Ok(()) in that
\* step, having sent no request, and changes neither gh-info nor the lock.
C3_ShortCircuit ==
    [][\A w \in Workers :
          (pc[w] = "s_info_get" /\ s_info # {} /\ pc'[w] # pc[w] /\ ~Stops(w))
          => /\ pc'[w] = "idle"
             /\ ret'[w] = "Ok"
             /\ reqs'[w] = 0
             /\ s_info' = s_info
             /\ s_lock' = s_lock]_vars

\* C3 witness: a call has returned Ok(()) from the cache, without coming to
\* the lock, while another instance holds the lock.
C3_Witness ==
    \E w \in Workers :
        /\ pc[w] = "idle" /\ branch[w] = "fetch"
        /\ ret[w] = "Ok" /\ res[w] = "-" /\ reqs[w] = 0
        /\ s_info # {} /\ s_lock = "held"

\* C4 (as claimed): a call that found the cache empty and did not acquire
\* the lock has returned AlreadyFetched.
C4_NotAcquiredReturnsAlreadyFetched ==
    \A w \in Workers :
        (pc[w] = "idle" /\ res[w] \in {"Err(AlreadyFetched)", "Ok(Err(true))"})
        => ret[w] = "AlreadyFetched"

\* C5: a call that holds the lock and returns leaves the lock free, and
\* without a crash the lock is held only while an instance is between
\* acquire and release.
C5_LockReleased ==
    /\ []((crashed = FALSE /\ \A w \in Workers : ~InCritical(w)) => s_lock # "held")
    /\ [][\A w \in Workers :
             (InCritical(w) /\ pc'[w] = "idle" /\ ~Stops(w))
             => s_lock' = "free"]_vars

\* C5 witness: a call that acquired the lock has returned an error and the
\* lock is free.
C5_Witness ==
    \E w \in Workers :
        /\ pc[w] = "idle" /\ res[w] = "Ok(Ok(true))"
        /\ ret[w] = "HttpFetchingError0"
        /\ s_lock = "free" /\ crashed = FALSE

\* C6 (as claimed): two calls that failed at different points of
\* fetch_from_remote have returned different error codes.
C6_DistinctErrorCodes ==
    \A w1, w2 \in Workers :
        (/\ pc[w1] = "idle" /\ pc[w2] = "idle"
         /\ logged[w1] # "-" /\ logged[w2] # "-"
         /\ logged[w1] # logged[w2])
        => ret[w1] # ret[w2]

\* C9: an activation takes exactly one branch: with QueueAvailable true it
\* puts the flag to false and enters fetch_if_needed, submitting nothing;
\* with the flag false it runs signed_submit_agent, leaves the flag false
\* and touches neither the lock nor gh-info.
C9_WorkerBranching ==
    [][\A w \in Workers :
          (pc[w] = "idle" /\ <<pc[w], branch[w], ret[w]>>' # <<pc[w], branch[w], ret[w]>>)
          => \/ /\ QueueAvailable = TRUE /\ QueueAvailable' = FALSE
                /\ branch'[w] = "fetch" /\ pc'[w] = "s_info_get"
                /\ pool' = pool
             \/ /\ QueueAvailable = FALSE /\ QueueAvailable' = FALSE
                /\ branch'[w] = "submit" /\ pc'[w] = "idle"
                /\ ret'[w] \in {"Ok", "SignedSubmitNumberError"}
                /\ s_lock' = s_lock /\ s_info' = s_info]_vars

\* C9 witness: one activation took the fetch branch and is in
\* fetch_if_needed, another took the submit branch; the flag is false.
C9_Witness ==
    \E w1, w2 \in Workers :
        /\ branch[w1] = "fetch" /\ pc[w1] = "mutate_get"
        /\ branch[w2] = "submit" /\ ret[w2] = "Ok"
        /\ QueueAvailable = FALSE

\* C10 (as claimed): a step that changes Ledger State is not a step of a
\* worker instance.
C10_LedgerOnlyByTransactions ==
    [][ledgerVars' # ledgerVars => workerVars' = workerVars]_vars

\* The number of the latest of the first k submissions (numbered from 0)
\* whose number is congruent to i modulo NUM_VEC_LEN.
LatestCall(k, i) ==
    CHOOSE c \in 0..(k - 1) :
        /\ c % NUM_VEC_LEN = i
        /\ \A d \in 0..(k - 1) : d % NUM_VEC_LEN = i => d <= c

\* C7 (as claimed): after k > NUM_VEC_LEN submissions Numbers has
\* NUM_VEC_LEN entries and index i holds the number of the latest submission
\* congruent to i modulo NUM_VEC_LEN.
C7_CircularOverwrite ==
    Len(events) > NUM_VEC_LEN
    => /\ Len(Numbers) = NUM_VEC_LEN
       /\ \A i \in 0..(NUM_VEC_LEN - 1) :
             Numbers[i + 1] = events[LatestCall(Len(events), i) + 1].number

\* C8: a proposed unsigned call is valid exactly when it is
\* submit_number_unsigned; a valid one has the configured priority, the tag
\* of the operation kind, longevity 3 and propagate true whatever its
\* number, every other call is InvalidTransaction::Call.
C8_UnsignedAdmission ==
    validity.call.name # "-"
    => /\ validity.v.valid <=> validity.call.name = "submit_number_unsigned"
       /\ validity.v.valid
          => /\ validity.v.priority = "UnsignedPriority"
             /\ validity.v.provides = <<"offchain-demo", "submit_number_unsigned">>
             /\ validity.v.longevity = 3
             /\ validity.v.propagate = TRUE
       /\ ~validity.v.valid => validity.v.error = "InvalidTransaction::Call"

\* C8 witness: submit_number_unsigned(42) was proposed and accepted.
C8_Witness ==
    /\ validity.call.name = "submit_number_unsigned"
    /\ validity.call.number = 42
    /\ validity.v.valid

\* The call was made from an origin its dispatchable does not accept:
\* insert_new_task, submit_agent_signed or submit_number_signed from an
\* origin that is not signed, submit_number_unsigned from a signed one.
WrongOrigin(d) ==
    \/ /\ d.call \in {"insert_new_task", "submit_agent_signed", "submit_number_signed"}
       /\ d.origin # "Signed"
    \/ /\ d.call = "submit_number_unsigned"
       /\ d.origin = "Signed"

\* C11 (as claimed): an empty_tasks call from an origin that is not signed
\* returns an error and leaves QueueAvailable as it was.
C11_ClearTasksRequiresSigned ==
    [][(dispatched'.call = "empty_tasks" /\ dispatched'.origin # "Signed")
          => /\ dispatched'.result = "BadOrigin"
             /\ QueueAvailable' = QueueAvailable]_vars

\* C12: insert_new_task, submit_agent_signed and submit_number_signed called
\* from an origin that is not signed, and submit_number_unsigned called from
\* a signed origin, return BadOrigin and leave the task entries,
\* QueueAvailable, Numbers, UserAgentOnChain and the deposited events as
\* they were.
C12_OriginChecks ==
    [][WrongOrigin(dispatched')
          => /\ dispatched'.result = "BadOrigin"
             /\ ledgerVars' = ledgerVars]_vars

\* C12 witness: with a number stored and a task queued, a signed
\* submit_number_unsigned was refused.
C12_Witness ==
    /\ dispatched.call = "submit_number_unsigned"
    /\ dispatched.origin = "Signed"
    /\ dispatched.result = "BadOrigin"
    /\ Len(Numbers) = 1 /\ Len(events) = 1
    /\ QueueAvailable = TRUE

\* C13: a successful insert_new_task(id, target, header) leaves the entry of
\* id equal to (target, header) whatever it was before, QueueAvailable true,
\* and every other entry, Numbers, UserAgentOnChain and the events as they
\* were.
C13_InsertTaskEffect ==
    [][(dispatched'.call = "insert_new_task" /\ dispatched'.result = "Ok")
          => /\ TaskQueueByNumber'[dispatched'.args.task_number] =
                   [http_remote_reqst |-> dispatched'.args.http_remote_reqst,
                    http_header_usr |-> dispatched'.args.http_header_usr]
             /\ \A n \in TaskNumbers \ {dispatched'.args.task_number} :
                   TaskQueueByNumber'[n] = TaskQueueByNumber[n]
             /\ QueueAvailable' = TRUE
             /\ Numbers' = Numbers
             /\ UserAgentOnChain' = UserAgentOnChain
             /\ events' = events]_vars

\* C13 witness: task 1 was inserted with header "a" while task 2 holds the
\* header 0xFF, a number is stored and an agent is set.
C13_Witness ==
    /\ dispatched.call = "insert_new_task" /\ dispatched.result = "Ok"
    /\ dispatched.args.task_number = 1
    /\ TaskQueueByNumber[1] = [http_remote_reqst |-> <<116>>, http_header_usr |-> <<97>>]
    /\ TaskQueueByNumber[2] = [http_remote_reqst |-> <<116>>, http_header_usr |-> <<255>>]
    /\ Numbers # <<>> /\ UserAgentOnChain # <<>>
    /\ QueueAvailable = TRUE

\* The lock is stranded: it reads held and no instance is between acquiring
\* and releasing it (the instance that wrote held has stopped).
Stranded ==
    /\ s_lock = "held"
    /\ \A w \in Workers : ~InCritical(w)

\* C14 (as claimed): once the lock is stranded it stays held, no call
\* acquires it or sends a request, and gh-info is not populated.
C14_StrandedLockNeverPopulated ==
    [][Stranded
          => /\ s_lock' = "held"
             /\ \A w \in Workers : ~InCritical(w)'
             /\ \A w \in Workers : reqs'[w] = reqs[w] \/ reqs'[w] = 0
             /\ s_info' = {}]_vars

\* C14 (amended): once the lock is stranded it stays held, no call acquires
\* it or sends a request, and gh-info is never written again: it stays
\* empty if the instance stopped before s_info.set, and keeps the value
\* written if the instance stopped between s_info.set and s_lock.set.
C14_StrandedLock ==
    [][Stranded
          => /\ s_lock' = "held"
             /\ \A w \in Workers : ~InCritical(w)'
             /\ \A w \in Workers : reqs'[w] = reqs[w] \/ reqs'[w] = 0
             /\ s_info' = s_info]_vars

\* C14 witness: the lock is stranded with gh-info empty, and a later call
\* has read the lock held and returned without a request.
C14_Witness ==
    /\ Stranded /\ crashed = TRUE /\ s_info = {}
    /\ \E w \in Workers :
          /\ pc[w] = "idle" /\ res[w] = "Err(AlreadyFetched)"
          /\ ret[w] = "Ok" /\ reqs[w] = 0

\* C15: a call of fetch_if_needed that runs alone and finds gh-info empty
\* acquires the lock; when the one request it sent is answered 200 with a
\* body holding login, blog and public_repos, it returns Ok(()) with gh-info
\* holding those values (the strings as their UTF-8 bytes) and the lock
\* free.
C15_SuccessfulFetch ==
    \A w \in ScenarioWorkers :
        (pc[w] = "idle" /\ branch[w] = "fetch")
        => /\ res[w] # "Ok(Ok(true))" => (res[w] = "-" /\ s_info # {})
           /\ \A l \in Logins :
                 (/\ res[w] = "Ok(Ok(true))"
                  /\ resp[w] = [wait |-> "Ok", code |-> 200, body |-> GithubBody(l)])
                 => /\ ret[w] = "Ok"
                    /\ reqs[w] = 1
                    /\ s_lock = "free"
                    /\ s_info = {[login |-> Utf8Encode(l), blog |-> <<>>,
                                  public_repos |-> 3]}

\* C15 witness: task 1 holds the header "a", the activation acquired the
\* lock, was answered 200 with login "é", and gh-info holds the two UTF-8
\* bytes of "é", an empty blog and 3.
C15_Witness ==
    \E w \in ScenarioWorkers :
        /\ pc[w] = "idle" /\ branch[w] = "fetch"
        /\ TaskQueueByNumber[1].http_header_usr = <<97>>
        /\ res[w] = "Ok(Ok(true))" /\ ret[w] = "Ok" /\ reqs[w] = 1
        /\ resp[w].code = 200 /\ resp[w].body = GithubBody(<<233>>)
        /\ s_info = {[login |-> <<195, 169>>, blog |-> <<>>, public_repos |-> 3]}
        /\ s_lock = "free"

\* C16: on a node whose keystore holds no account, every call of
\* signed_submit_agent has returned SignedSubmitNumberError, with gh-info
\* populated or not, and no transaction was ever submitted.
C16_NoSigningIdentity ==
    keystore = {}
    => /\ pool = {}
       /\ \A w \in Workers :
             (pc[w] = "idle" /\ branch[w] = "submit")
             => ret[w] = "SignedSubmitNumberError"

\* C16 witness: on a node without a local account gh-info is populated, an
\* activation took the submit branch and returned SignedSubmitNumberError,
\* and nothing was submitted.
C16_Witness ==
    /\ keystore = {} /\ pool = {} /\ s_info # {}
    /\ \E w \in Workers :
          /\ pc[w] = "idle" /\ branch[w] = "submit"
          /\ ret[w] = "SignedSubmitNumberError"

\* C17: the membership set never holds more than 16 members, and add_member
\* by an account that is no member, called with 16 members present, returns
\* MembershipLimitReached and leaves the set and the events as they were.
C17_MembershipBounded ==
    /\ [](Cardinality(MapSetMembers) <= 16)
    /\ [][(/\ mapSetCall'.call = "add_member"
            /\ mapSetCall'.who # {}
            /\ mapSetCall'.who \cap MapSetMembers = {}
            /\ Cardinality(MapSetMembers) = 16)
           => /\ mapSetCall'.result = "MembershipLimitReached"
              /\ MapSetMembers' = MapSetMembers
              /\ mapSetEvents' = mapSetEvents]_vars

\* C17 witness: as in cant_exceed_max_members, accounts 0..15 are the
\* members and account 16 was refused with MembershipLimitReached.
C17_Witness ==
    /\ MapSetMembers = 0..15
    /\ Len(mapSetEvents) = 16
    /\ mapSetCall = [call |-> "add_member", who |-> {16},
                     result |-> "MembershipLimitReached"]

C19_NoRetry ==
    /\ [](\A w \in Workers : reqs[w] <= 1)
    /\ [][\A w \in Workers :
             /\ reqs'[w] > reqs[w]
                => (branch[w] = "fetch" /\ pc[w] = "send" /\ reqs[w] = 0)
             /\ (pc[w] = "release_err" /\ pc'[w] # pc[w])
                => (pc'[w] = "idle" /\ ret'[w] = err[w] /\ reqs'[w] = reqs[w])]_vars

\* C19 witness: an activation whose one request ran into the deadline has
\* returned its error, and another instance, activated on the fetch branch
\* after a further insert_new_task, is waiting for its own request.
C19_Witness ==
    \E w1, w2 \in Workers :
        /\ pc[w1] = "idle" /\ branch[w1] = "fetch"
        /\ logged[w1] = "HttpFetchingError7" /\ ret[w1] = "HttpFetchingError0"
        /\ reqs[w1] = 1
        /\ pc[w2] = "try_wait" /\ reqs[w2] = 1

C21_RequestFromTaskOne ==
    [][\A w \in Workers :
          reqs'[w] > reqs[w]
          => /\ sent'[w].method = "GET"
             /\ Utf8Encode(sent'[w].url) = HTTP_REMOTE_REQUEST_BYTES
             /\ Utf8Encode(sent'[w].user_agent) =
                   TaskQueueByNumber[1].http_header_usr]_vars

\* C21 witness: task 1 holds the header "é" and the target "t", task 2 the
\* header "a"; the request in flight goes to "h" with User-Agent "é".
C21_Witness ==
    /\ TaskQueueByNumber[1] =
          [http_remote_reqst |-> <<116>>, http_header_usr |-> <<195, 169>>]
    /\ TaskQueueByNumber[2].http_header_usr = <<97>>
    /\ \E w \in Workers :
          /\ pc[w] = "try_wait" /\ reqs[w] = 1
          /\ sent[w] = [method |-> "GET", url |-> <<104>>, user_agent |-> <<233>>]

\* C22: Numbers never holds more than 10 values and never gets shorter;
\* while at most 10 calls were accepted it holds their numbers in call
\* order; an accepted call deposits exactly one NewNumber(who, number), with
\* who the signer or None, and a refused call deposits none.
C22_NumbersBoundAndOrder ==
    /\ [](Len(Numbers) <= 10)
    /\ []((Len(events) <= 10)
             => (/\ Len(Numbers) = Len(events)
                 /\ \A i \in 1..Len(events) : Numbers[i] = events[i].number))
    /\ [][Len(Numbers') >= Len(Numbers)]_vars
    /\ [][(dispatched'.result = "Ok")
             => (events' = Append(events,
                    [who |-> IF dispatched'.call = "submit_number_signed"
                             THEN Accounts ELSE {},
                     number |-> dispatched'.args.number]))]_vars
    /\ [][(dispatched'.result # "Ok") => (events' = events)]_vars

\* C22 witness: twelve calls were accepted, signed and unsigned ones among
\* the first ten, Numbers holds ten values, and the last call was refused.
C22_Witness ==
    /\ Len(events) = 12 /\ Len(Numbers) = 10
    /\ events[3].who = {} /\ events[4].who = Accounts
    /\ Numbers[3] = 2 /\ Numbers[10] = 9
    /\ dispatched.call = "submit_number_signed" /\ dispatched.result = "BadOrigin"

\* The login CachedFetchResult holds is on chain.
Delivered ==
    \E i \in s_info : UserAgentOnChain = i.login

\* Every transaction a step adds to the pool carries the login the cache
\* holds, and none is added while the cache is empty.
SubmitsCachedLogin ==
    [][\A tx \in pool' \ pool :
          s_info # {} /\ \A i \in s_info : tx.agent = i.login]_vars

====
